---------------------------- MODULE Spec2Model ----------------------------
(***************************************************************************)
(* Model of src/main.py: parse_number and parse_single_page_pdf.           *)
(*                                                                         *)
(* Text is a sequence of one-character strings.  The Python string         *)
(* primitives the source uses (find, slicing, strip, split, replace,       *)
(* re.sub with its three patterns, float, int, datetime.strptime) are      *)
(* operators that compute what the primitive computes on the characters    *)
(* the modelled documents contain: digits, '.', '/', '-', '+', '%',        *)
(* space, tab, newline and letters.  float()/int() forms that need other   *)
(* characters or letters with a numeric meaning (exponents, inf, nan,      *)
(* digit-group underscores) do not occur in the modelled inputs.           *)
(* A float is kept as an exact decimal [neg, mant, exp] = (-1)^neg * mant  *)
(* / 10^exp with trailing fraction zeros removed, so equal decimals are    *)
(* equal values and -0.0 is distinct from 0.0 as in Python.                *)
(***************************************************************************)
EXTENDS Integers, Sequences, FiniteSets, TLC

VARIABLES
    call,           \* which function of the module is being run
    pc,             \* position inside that function
    file,           \* what pdfplumber yields for the handle: [outcome, text]
    text,           \* page.extract_text()
    start, end,     \* offsets of "COLLECTED DISTRIBUTED" and "ENTITY"
    date__text_block_start, date__text_block_end,
    dates,          \* date tokens
    start_date, end_date,
    section,        \* the data section after dash and percent removal
    cleaned_lines,
    i,              \* 0-based index of the row loop
    rows,
    returned,       \* <<>> until the function returns, then <<value>>
    err,            \* the exception raised, kind "none" while there is none
    num_str         \* argument of a direct parse_number call

vars == << call, pc, file, text, start, end, date__text_block_start,
           date__text_block_end, dates, start_date, end_date, section,
           cleaned_lines, i, rows, returned, err, num_str >>

-----------------------------------------------------------------------------
(* Bounds of the model *)

\* at most this many candidate data lines between the header and the footer
MaxLines == 2
\* direct parse_number calls take every token over TokAlphabet up to this length
MaxTokLen == 3

-----------------------------------------------------------------------------
(* Characters and Python string primitives *)

Digits == {"0","1","2","3","4","5","6","7","8","9"}

DigitVal(c) ==
    CASE c = "0" -> 0 [] c = "1" -> 1 [] c = "2" -> 2 [] c = "3" -> 3
      [] c = "4" -> 4 [] c = "5" -> 5 [] c = "6" -> 6 [] c = "7" -> 7
      [] c = "8" -> 8 [] c = "9" -> 9

\* str.isspace / regex \s on the modelled characters
IsSpace(c) == c \in {" ", "\t", "\n"}

Min(S) == CHOOSE x \in S : \A y \in S : x <= y

\* s.find(sub): 0-based offset of the first occurrence, -1 when absent
Find(s, sub) ==
    LET cand == { k \in 0..(Len(s) - Len(sub)) :
                    SubSeq(s, k + 1, k + Len(sub)) = sub }
    IN IF cand = {} THEN -1 ELSE Min(cand)

\* sub in s
Contains(s, sub) == Find(s, sub) # -1

\* s[a:b] with Python's slice semantics (negative offsets count from the end)
Slice(s, a, b) ==
    LET n  == Len(s)
        na == IF a < 0 THEN (IF n + a < 0 THEN 0 ELSE n + a)
                       ELSE (IF a > n THEN n ELSE a)
        nb == IF b < 0 THEN (IF n + b < 0 THEN 0 ELSE n + b)
                       ELSE (IF b > n THEN n ELSE b)
    IN IF na < nb THEN SubSeq(s, na + 1, nb) ELSE << >>

\* s.strip()
Strip(s) ==
    LET keep == { k \in 1..Len(s) : ~IsSpace(s[k]) }
    IN IF keep = {} THEN << >>
       ELSE SubSeq(s, Min(keep), CHOOSE k \in keep : \A j \in keep : j <= k)

\* the members of a set S of positions 1..n, in increasing order
Positions(n, S) == SelectSeq([k \in 1..n |-> k], LAMBDA k : k \in S)

\* s.split(c) for a one-character separator: empty pieces are kept
Split(s, c) ==
    LET seps   == Positions(Len(s), { k \in 1..Len(s) : s[k] = c })
        bounds == << 0 >> \o seps \o << Len(s) + 1 >>
    IN [j \in 1..(Len(seps) + 1) |->
          SubSeq(s, bounds[j] + 1, bounds[j + 1] - 1)]

\* s.replace(c, "")
RemoveChar(s, c) == SelectSeq(s, LAMBDA x : x # c)

\* list(filter(None, pieces))
FilterNonEmpty(pieces) == SelectSeq(pieces, LAMBDA p : p # << >>)

\* re.sub(r"[^0-9/ ]", "", s)
KeepDateChars(s) == SelectSeq(s, LAMBDA x : x \in Digits \cup {"/", " "})

\* the other dash rule: every dash deleted
RemoveEveryDash(s) == RemoveChar(s, "-")

\* re.sub(r"(?<=-)-|-(?=-)", "", s): a dash is deleted when the character
\* before it or the character after it (in s itself) is a dash
RemoveDashes(s) ==
    LET dead(k) == /\ s[k] = "-"
                   /\ \/ (k > 1 /\ s[k - 1] = "-")
                      \/ (k < Len(s) /\ s[k + 1] = "-")
        kept    == Positions(Len(s), { k \in 1..Len(s) : ~dead(k) })
    IN [j \in 1..Len(kept) |-> s[kept[j]]]

\* re.sub(r"\s+", " ", s): every maximal run of whitespace becomes one space
CollapseSpaces(s) ==
    LET kept == Positions(Len(s), { k \in 1..Len(s) :
                    ~IsSpace(s[k]) \/ k = 1 \/ ~IsSpace(s[k - 1]) })
    IN [j \in 1..Len(kept) |->
          IF IsSpace(s[kept[j]]) THEN " " ELSE s[kept[j]]]

-----------------------------------------------------------------------------
(* float(), int() and datetime.strptime(_, "%m/%d/%Y") *)

AllDigits(s) == \A k \in 1..Len(s) : s[k] \in Digits

\* value of a digit string, most significant digit first ("" is 0)
DigitsVal(s) ==
    LET F[k \in 0..Len(s)] ==
          IF k = 0 THEN 0 ELSE 10 * F[k - 1] + DigitVal(s[k])
    IN F[Len(s)]

RECURSIVE Normalise(_, _)
Normalise(mant, exp) ==
    IF exp > 0 /\ mant % 10 = 0 THEN Normalise(mant \div 10, exp - 1)
    ELSE << mant, exp >>

NoFloat == [ok |-> FALSE, neg |-> FALSE, mant |-> 0, exp |-> 0]

\* float(s): optional surrounding whitespace, optional sign, then digits with
\* at most one '.', at least one digit
ParseFloat(s0) ==
    LET s    == Strip(s0)
        sign == s # << >> /\ s[1] \in {"+", "-"}
        body == IF sign THEN Tail(s) ELSE s
        dots == { k \in 1..Len(body) : body[k] = "." }
        ip   == IF dots = {} THEN body ELSE SubSeq(body, 1, Min(dots) - 1)
        fp   == IF dots = {} THEN << >>
                ELSE SubSeq(body, Min(dots) + 1, Len(body))
    IN IF /\ Cardinality(dots) <= 1
          /\ AllDigits(ip) /\ AllDigits(fp)
          /\ Len(ip) + Len(fp) >= 1
       THEN LET nm == Normalise(DigitsVal(ip \o fp), Len(fp))
            IN [ok |-> TRUE, neg |-> (sign /\ s[1] = "-"),
                mant |-> nm[1], exp |-> nm[2]]
       ELSE NoFloat

\* -val
Negate(v) == [v EXCEPT !.neg = ~@]

NoInt == [ok |-> FALSE, val |-> 0]

\* int(s): optional surrounding whitespace, optional sign, one or more digits
ParseInt(s0) ==
    LET s    == Strip(s0)
        sign == s # << >> /\ s[1] \in {"+", "-"}
        body == IF sign THEN Tail(s) ELSE s
    IN IF body # << >> /\ AllDigits(body)
       THEN [ok |-> TRUE,
             val |-> IF sign /\ s[1] = "-" THEN 0 - DigitsVal(body)
                     ELSE DigitsVal(body)]
       ELSE NoInt

IsLeap(y) == (y % 4 = 0 /\ y % 100 # 0) \/ y % 400 = 0

DaysIn(y, m) ==
    IF m = 2 THEN (IF IsLeap(y) THEN 29 ELSE 28)
    ELSE IF m \in {4, 6, 9, 11} THEN 30 ELSE 31

NoDate == [ok |-> FALSE, y |-> 0, m |-> 0, d |-> 0]

\* datetime.strptime(s, "%m/%d/%Y"): %m and %d are one or two digits (a
\* one-digit form is never "0"), %Y is exactly four digits, the whole string
\* must match, and the result must be a calendar date of year >= 1
Strptime(s) ==
    LET p == Split(s, "/")
    IN IF /\ Len(p) = 3
          /\ \A k \in 1..3 : AllDigits(p[k])
          /\ Len(p[1]) \in {1, 2} /\ Len(p[2]) \in {1, 2} /\ Len(p[3]) = 4
       THEN LET m == DigitsVal(p[1])
                d == DigitsVal(p[2])
                y == DigitsVal(p[3])
            IN IF /\ m \in 1..12 /\ y >= 1
                  /\ d >= 1 /\ d <= DaysIn(y, m)
               THEN [ok |-> TRUE, y |-> y, m |-> m, d |-> d]
               ELSE NoDate
       ELSE NoDate

-----------------------------------------------------------------------------
(* Exceptions.  site is the source line of the raise; line and content are  *)
(* what the message cites; token and cause describe the underlying error.   *)

NoError ==
    [kind |-> "none", site |-> 0, line |-> 0, content |-> << >>,
     token |-> << >>, cause |-> "none"]

Error(kind, site) == [NoError EXCEPT !.kind = kind, !.site = site]

-----------------------------------------------------------------------------
(* parse_number, lines 7-23 *)

\* the variant without dash handling: float(num_str) alone
parse_number_plain(arg) ==
    LET s == Strip(arg)
        f == ParseFloat(s)
    IN IF f.ok THEN [raised |-> "none", val |-> f, token |-> << >>]
       ELSE [raised |-> "ValueError", val |-> NoFloat, token |-> s]

\* result: [raised, val, token]; raised is "none", "NumberFormatError" (the
\* re-raise of line 18, naming num_str) or "ValueError" (float's own, line 23)
parse_number(arg) ==
    LET s == Strip(arg)
    IN IF Contains(s, << "-" >>)
       THEN LET cleaned == RemoveChar(s, "-")
                f       == ParseFloat(cleaned)
            IN IF f.ok
               THEN [raised |-> "none", val |-> Negate(f), token |-> << >>]
               ELSE [raised |-> "NumberFormatError", val |-> NoFloat,
                     token |-> s]
       ELSE LET f == ParseFloat(s)
            IN IF f.ok
               THEN [raised |-> "none", val |-> f, token |-> << >>]
               ELSE [raised |-> "ValueError", val |-> NoFloat, token |-> s]

-----------------------------------------------------------------------------
(* The marker strings of parse_single_page_pdf *)

CD == <<"C","O","L","L","E","C","T","E","D"," ","D","I","S","T","R","I","B","U","T","E","D">>
ENTITY == <<"E","N","T","I","T","Y">>
FROM == <<"F","R","O","M">>
YEAR_FROM == <<"Y","E","A","R"," ","F","R","O","M">>
TOTL == <<"T","O","T","L">>

-----------------------------------------------------------------------------
(* parse_single_page_pdf, lines 26-122, one operator per decision *)

\* line 44 without its start >= end test
SectionCheckFailsNoOrder(s, e) == s = -1 \/ e = -1

\* line 44
SectionCheckFails(s, e) == s = -1 \/ e = -1 \/ s >= e

\* line 53 left out
DateCheckSkipped(ds, de) == FALSE

\* line 53
DateCheckFails(ds, de) == ds = -1 \/ de = -1

\* lines 60-62 with the deleted characters replaced by a space instead
DateTokensNewlineSeparates(block) ==
    FilterNonEmpty(Split(
        [k \in 1..Len(block) |->
            IF block[k] \in Digits \cup {"/", " "} THEN block[k] ELSE " "],
        " "))

\* lines 60-62
DateTokens(block) == FilterNonEmpty(Split(KeepDateChars(block), " "))

\* line 70 reading dates[1]
EndDateFromSecondToken(ds) == ds[2]

\* lines 69-70: both dates are read from dates[0]
StartDateToken(ds) == ds[1]

EndDateToken(ds) == ds[1]

\* lines 73-75
CleanSection(raw) == RemoveChar(RemoveDashes(raw), "%")

\* line 83
SkipLine(line) == Contains(line, CD) \/ Contains(line, TOTL)

\* lines 76-86 without the TOTL test
CleanLinesKeepFooter(sec) ==
    LET lines == Split(Strip(sec), "\n")
        F[k \in 0..Len(lines)] ==
          IF k = 0 THEN << >>
          ELSE LET line == Strip(lines[k])
               IN IF line = << >> THEN F[k - 1]
                  ELSE IF Contains(line, CD) THEN F[k - 1]
                  ELSE Append(F[k - 1], CollapseSpaces(line))
    IN F[Len(lines)]

\* lines 76-86
CleanLines(sec) ==
    LET lines == Split(Strip(sec), "\n")
        F[k \in 0..Len(lines)] ==
          IF k = 0 THEN << >>
          ELSE LET line == Strip(lines[k])
               IN IF line = << >> THEN F[k - 1]
                  ELSE IF SkipLine(line) THEN F[k - 1]
                  ELSE Append(F[k - 1], CollapseSpaces(line))
    IN F[Len(lines)]

\* line 92
NumFields == 13

\* the line number left 0-based
LineNoZeroBased(idx) == idx

\* the i+1 of lines 93 and 114
LineNo(idx) == idx + 1

\* lines 95-111: the dict display evaluates int(split[0]) and then
\* parse_number(split[1]) .. parse_number(split[12]) in that order; the first
\* one to raise ends the evaluation.  bad is the 0-based position of that
\* token, 13 when none raises.
FirstBad(split) ==
    LET bad == { k \in 0..12 :
                   IF k = 0 THEN ~ParseInt(split[1]).ok
                   ELSE parse_number(split[k + 1]).raised # "none" }
    IN IF bad = {} THEN 13 ELSE Min(bad)

Row(sd, ed, year, num) ==
    [START_DATE |-> sd,
     END_DATE |-> ed,
     YEAR |-> year,
     BEGINNING_TAX_BALANCE |-> num[1],
     TAX_ADJUSTMENT |-> num[2],
     BASE_TAX_COLLECTED |-> num[3],
     REVERSALS |-> num[4],
     NET_BASE_TAX_COLLECTED |-> num[5],
     PERCENT_COLLECTED |-> num[6],
     ENDING_TAX_BALANCE |-> num[7],
     PROPERTY_AND_INSURANCE_COLLECTED |-> num[8],
     PROPERTY_AND_INSURANCE_REVERSALS |-> num[9],
     LOCAL_REAL_PROPERTY_COLLECTED |-> num[10],
     OTHER_PENALTY_COLLECTED |-> num[11],
     TOTAL_DISTRIBUTED |-> num[12]]

\* num[p] is parse_number(split[p]), p = 1..12
MakeRow(split, sd, ed) ==
    Row(sd, ed, ParseInt(split[1]).val,
        [p \in 1..12 |-> parse_number(split[p + 1]).val])

\* line 119 left out
NeverEmpty(rs) == FALSE

\* line 119
NoRows(rs) == rs = << >>

-----------------------------------------------------------------------------
(* Inputs: tokens, data lines, date blocks and page layouts *)

T_2024 == <<"2","0","2","4">>
T_2023 == <<"2","0","2","3">>
T_neg2024 == <<"-","2","0","2","4">>
T_2024neg == <<"2","0","2","4","-">>
T_1000_00 == <<"1","0","0","0",".","0","0">>
T_0_00 == <<"0",".","0","0">>
T_500_00 == <<"5","0","0",".","0","0">>
T_50_00 == <<"5","0",".","0","0">>
T_50_00pct == <<"5","0",".","0","0","%">>
T_10_00 == <<"1","0",".","0","0">>
T_5_00 == <<"5",".","0","0">>
T_2_00 == <<"2",".","0","0">>
T_517_00 == <<"5","1","7",".","0","0">>
T_neg500_00 == <<"-","5","0","0",".","0","0">>
T_500_00neg == <<"5","0","0",".","0","0","-">>
T_5dd00_00 == <<"5","-","-","0","0",".","0","0">>
T_12d345d67 == <<"1","2","-","3","4","5","-","6","7">>
T_123_45 == <<"1","2","3",".","4","5">>
T_x == <<"x">>
T_dash == <<"-">>
T_dashes == <<"-","-","-">>

\* " ".join(tokens)
JoinSp(tokens) ==
    LET F[k \in 0..Len(tokens)] ==
          IF k = 0 THEN << >>
          ELSE IF k = 1 THEN tokens[1]
          ELSE F[k - 1] \o << " " >> \o tokens[k]
    IN F[Len(tokens)]

\* "\n".join(lines)
JoinNl(lines) ==
    LET F[k \in 0..Len(lines)] ==
          IF k = 0 THEN << >>
          ELSE IF k = 1 THEN lines[1]
          ELSE F[k - 1] \o << "\n" >> \o lines[k]
    IN F[Len(lines)]

\* the 13 tokens of the well-formed ledger line, "2024 1000.00 0.00 500.00
\* 0.00 500.00 50.00 500.00 10.00 0.00 5.00 2.00 517.00"
GoodTokens ==
    << T_2024, T_1000_00, T_0_00, T_500_00, T_0_00, T_500_00, T_50_00,
       T_500_00, T_10_00, T_0_00, T_5_00, T_2_00, T_517_00 >>

\* the well-formed line with token pos (0-based) replaced
With(pos, tok) == [GoodTokens EXCEPT ![pos + 1] = tok]

L_good == JoinSp(GoodTokens)
\* ragged spacing, a percent sign and a rule of dashes
L_ragged ==
    << " ", "\t" >> \o JoinSp(With(0, T_2023 \o << " ", "\t" >>))
      \o << " ", " " >>
L_percent == JoinSp(Append(With(6, T_50_00pct), T_dashes))
\* credit figures marked by one dash, leading or trailing
L_negative == JoinSp([With(3, T_neg500_00) EXCEPT ![5] = T_500_00neg])
L_dashed == JoinSp([With(3, T_12d345d67) EXCEPT ![5] = T_5dd00_00])
L_neg_year == JoinSp(With(0, T_neg2024))
L_year_dash == JoinSp(With(0, T_2024neg))
L_12_tokens == JoinSp(SubSeq(GoodTokens, 1, 12))
L_14_tokens == JoinSp(Append(GoodTokens, T_x))
L_bad_token3 == JoinSp(With(3, T_x))
L_lone_dash == JoinSp(With(7, T_dash))
L_blank == << " ", " ", "\t", " " >>
L_footer == <<"T","O","T","L"," ","1","0","0","0",".","0","0"," ","5","1","7",".","0","0">>
L_footer_dashed == <<"T","O","-","-","T","L"," ","1","0","0","0",".","0","0">>

LineSet ==
    { L_good, L_ragged, L_percent, L_negative, L_dashed, L_neg_year,
      L_year_dash, L_12_tokens, L_14_tokens, L_bad_token3, L_lone_dash,
      L_blank, L_footer_dashed }

LineSeqs == UNION { [1..n -> LineSet] : n \in 0..MaxLines }

\* the few line lists combined with every date block and layout
FewLineSeqs ==
    { << >>, << L_good >>, << L_12_tokens >>, << L_good, L_bad_token3 >> }

DB_example == <<"F","R","O","M"," ","0","1","/","2","4","/","2","0","2","5"," ","0","1","/","2","6","/","2","0","2","5"," ","Y","E","A","R"," ","F","R","O","M">>
DB_second_garbage == <<"F","R","O","M"," ","0","1","/","2","4","/","2","0","2","5"," ","T","O"," ","9","9","/","9","9"," ","Y","E","A","R"," ","F","R","O","M">>
DB_one_token == <<"F","R","O","M"," ","0","1","/","2","4","/","2","0","2","5"," ","Y","E","A","R"," ","F","R","O","M">>
DB_month13 == <<"F","R","O","M"," ","1","3","/","0","1","/","2","0","2","5"," ","0","1","/","2","6","/","2","0","2","5"," ","Y","E","A","R"," ","F","R","O","M">>
DB_feb30 == <<"F","R","O","M"," ","0","2","/","3","0","/","2","0","2","5"," ","0","1","/","2","6","/","2","0","2","5"," ","Y","E","A","R"," ","F","R","O","M">>
DB_split_token == <<"P","E","R","I","O","D"," ","F","R","O","M"," ","0","1","/","2","4","/","\n","2","0","2","5"," ","T","H","R","U","\t","0","1","/","2","6","/","2","0","2","5"," ","Y","E","A","R"," ","F","R","O","M">>
DB_tab_joined == <<"F","R","O","M"," ","0","1","/","2","4","/","2","0","2","5","\t","0","1","/","2","6","/","2","0","2","5"," ","Y","E","A","R"," ","F","R","O","M">>
DB_short == <<"F","R","O","M"," ","1","/","5","/","2","0","2","5"," "," ","2"," ","Y","E","A","R"," ","F","R","O","M">>
DB_year_from_first == <<"Y","E","A","R"," ","F","R","O","M"," ","0","1","/","2","4","/","2","0","2","5"," ","0","1","/","2","6","/","2","0","2","5">>
DB_no_from == <<"0","1","/","2","4","/","2","0","2","5"," ","0","1","/","2","6","/","2","0","2","5"," ","Y","E","A","R">>
DB_no_year_from == <<"F","R","O","M"," ","0","1","/","2","4","/","2","0","2","5"," ","0","1","/","2","6","/","2","0","2","5"," ","Y","E","A","R">>

DateBlocks ==
    { DB_example, DB_second_garbage, DB_one_token, DB_month13, DB_feb30,
      DB_split_token, DB_tab_joined, DB_short, DB_year_from_first,
      DB_no_from, DB_no_year_from }

HeaderLine == <<"T","A","X"," ">> \o CD
EntityLine == ENTITY \o <<" ","0","1">>

Layouts ==
    { "date_first", "date_last", "no_header", "no_entity", "no_markers",
      "entity_first" }

\* the text of a page: the date block, the table header, the data lines, the
\* totals footer and the entity line, arranged by layout
Page(block, layout, lines) ==
    LET body  == JoinNl(lines \o << L_footer >>)
        table == JoinNl(<< HeaderLine, body, EntityLine >>)
    IN CASE layout = "date_first"   -> JoinNl(<< block, table >>)
         [] layout = "date_last"    -> JoinNl(<< table, block >>)
         [] layout = "no_header"    -> JoinNl(<< block, body, EntityLine >>)
         [] layout = "no_entity"    -> JoinNl(<< block, HeaderLine, body >>)
         [] layout = "no_markers"   -> JoinNl(<< block, body >>)
         [] layout = "entity_first" ->
              JoinNl(<< block, EntityLine, HeaderLine, body >>)

Pages ==
    { Page(b, l, ls) : b \in DateBlocks, l \in Layouts, ls \in FewLineSeqs }
      \cup { Page(DB_example, "date_first", ls) : ls \in LineSeqs }

\* what pdfplumber can yield for a handle (lines 29-36): open() raising, a
\* document without pages, or the first page's text, possibly empty
Files ==
    { [outcome |-> "open_error", text |-> << >>],
      [outcome |-> "no_pages", text |-> << >>],
      [outcome |-> "ok", text |-> << >>] }
      \cup { [outcome |-> "ok", text |-> t] : t \in Pages }

TokAlphabet == {"1", "0", ".", "-", "+", "x"}

Tokens ==
    UNION { [1..n -> TokAlphabet] : n \in 0..MaxTokLen }
      \cup { T_12d345d67, T_123_45, T_neg500_00, T_500_00neg, T_5dd00_00 }

-----------------------------------------------------------------------------
(* The state machine *)

NoFile == [outcome |-> "none", text |-> << >>]

Idle ==
    /\ text = << >> /\ start = -1 /\ end = -1
    /\ date__text_block_start = -1 /\ date__text_block_end = -1
    /\ dates = << >> /\ start_date = NoDate /\ end_date = NoDate
    /\ section = << >> /\ cleaned_lines = << >> /\ i = 0 /\ rows = << >>
    /\ returned = << >> /\ err = NoError

\* a call of parse_single_page_pdf(file)
InitPdf ==
    /\ call = "parse_single_page_pdf" /\ pc = "acquire"
    /\ file \in Files /\ num_str = << >>
    /\ Idle

\* a call of parse_number(num_str)
InitNumber ==
    /\ call = "parse_number" /\ pc = "parse_number"
    /\ file = NoFile /\ num_str \in Tokens
    /\ Idle

Init == InitPdf \/ InitNumber

Raise(e) == pc' = "raised" /\ err' = e

\* lines 7-23
ParseNumberCall ==
    /\ call = "parse_number" /\ pc = "parse_number"
    /\ LET r == parse_number(num_str)
       IN IF r.raised = "none"
          THEN /\ pc' = "done" /\ returned' = << r.val >>
               /\ UNCHANGED err
          ELSE /\ Raise([Error(r.raised, IF r.raised = "ValueError"
                                         THEN 23 ELSE 18)
                           EXCEPT !.token = r.token])
               /\ UNCHANGED returned
    /\ UNCHANGED << call, file, text, start, end, date__text_block_start,
                    date__text_block_end, dates, start_date, end_date,
                    section, cleaned_lines, i, rows, num_str >>

\* lines 28-38
Acquire ==
    /\ call = "parse_single_page_pdf" /\ pc = "acquire"
    /\ IF file.outcome # "ok" \/ file.text = << >>
       THEN /\ Raise([Error("AcquisitionError", 38) EXCEPT
                        !.cause = IF file.outcome = "ok" THEN "no_text"
                                  ELSE file.outcome])
            /\ UNCHANGED text
       ELSE /\ text' = file.text /\ pc' = "locate_section"
            /\ UNCHANGED err
    /\ UNCHANGED << call, file, start, end, date__text_block_start,
                    date__text_block_end, dates, start_date, end_date,
                    section, cleaned_lines, i, rows, returned, num_str >>

\* lines 40-47
LocateSection ==
    /\ pc = "locate_section"
    /\ start' = Find(text, CD)
    /\ end' = Find(text, ENTITY)
    /\ IF SectionCheckFails(start', end')
       THEN Raise(Error("StructureError", 45))
       ELSE pc' = "locate_dates" /\ UNCHANGED err
    /\ UNCHANGED << call, file, text, date__text_block_start,
                    date__text_block_end, dates, start_date, end_date,
                    section, cleaned_lines, i, rows, returned, num_str >>

\* lines 49-56
LocateDates ==
    /\ pc = "locate_dates"
    /\ date__text_block_start' = Find(text, FROM)
    /\ date__text_block_end' = Find(text, YEAR_FROM)
    /\ IF DateCheckFails(date__text_block_start', date__text_block_end')
       THEN Raise(Error("StructureError", 54))
       ELSE pc' = "extract_dates" /\ UNCHANGED err
    /\ UNCHANGED << call, file, text, start, end, dates, start_date,
                    end_date, section, cleaned_lines, i, rows, returned,
                    num_str >>

\* lines 58-66
ExtractDates ==
    /\ pc = "extract_dates"
    /\ dates' = DateTokens(Slice(text, date__text_block_start,
                                 date__text_block_end))
    /\ IF Len(dates') < 2
       THEN Raise(Error("FormatError", 66))
       ELSE pc' = "parse_dates" /\ UNCHANGED err
    /\ UNCHANGED << call, file, text, start, end, date__text_block_start,
                    date__text_block_end, start_date, end_date, section,
                    cleaned_lines, i, rows, returned, num_str >>

\* lines 68-70: strptime raises its own ValueError
ParseDates ==
    /\ pc = "parse_dates"
    /\ LET sd == Strptime(StartDateToken(dates))
           ed == Strptime(EndDateToken(dates))
       IN IF ~sd.ok
          THEN /\ Raise([Error("FormatError", 69) EXCEPT
                           !.token = StartDateToken(dates)])
               /\ UNCHANGED << start_date, end_date >>
          ELSE IF ~ed.ok
          THEN /\ Raise([Error("FormatError", 70) EXCEPT
                           !.token = EndDateToken(dates)])
               /\ start_date' = sd /\ UNCHANGED end_date
          ELSE /\ start_date' = sd /\ end_date' = ed
               /\ pc' = "normalize" /\ UNCHANGED err
    /\ UNCHANGED << call, file, text, start, end, date__text_block_start,
                    date__text_block_end, dates, section, cleaned_lines, i,
                    rows, returned, num_str >>

\* lines 72-89
Normalize ==
    /\ pc = "normalize"
    /\ section' = CleanSection(Slice(text, start, end))
    /\ cleaned_lines' = CleanLines(section')
    /\ rows' = << >> /\ i' = 0
    /\ pc' = "rows"
    /\ UNCHANGED << call, file, text, start, end, date__text_block_start,
                    date__text_block_end, dates, start_date, end_date,
                    returned, err, num_str >>

\* lines 94-116 for a line of at least 13 tokens; bad is FirstBad(split)
ParseFields(line, split, bad) ==
    IF bad < 13
    THEN /\ Raise([Error("FieldParseError", 113) EXCEPT
                     !.line = LineNo(i), !.content = line,
                     !.token = split[bad + 1],
                     !.cause = IF bad = 0 THEN "int"
                               ELSE parse_number(split[bad + 1]).raised])
         /\ UNCHANGED << i, rows >>
    ELSE /\ rows' = Append(rows, MakeRow(split, start_date, end_date))
         /\ i' = i + 1
         /\ UNCHANGED << pc, err >>

\* lines 91-116 for one line and its split
ParseLine(line, split) ==
    IF Len(split) < NumFields
    THEN /\ Raise([Error("FieldCountError", 93) EXCEPT
                     !.line = LineNo(i), !.content = line])
         /\ UNCHANGED << i, rows >>
    ELSE ParseFields(line, split, FirstBad(split))

\* lines 90-116, one iteration of the loop
ParseRow ==
    /\ pc = "rows" /\ i < Len(cleaned_lines)
    /\ ParseLine(cleaned_lines[i + 1], Split(cleaned_lines[i + 1], " "))
    /\ UNCHANGED << call, file, text, start, end, date__text_block_start,
                    date__text_block_end, dates, start_date, end_date,
                    section, cleaned_lines, returned, num_str >>

\* lines 118-122
Finish ==
    /\ pc = "rows" /\ i = Len(cleaned_lines)
    /\ IF NoRows(rows)
       THEN Raise(Error("EmptyResultError", 120)) /\ UNCHANGED returned
       ELSE pc' = "done" /\ returned' = << rows >> /\ UNCHANGED err
    /\ UNCHANGED << call, file, text, start, end, date__text_block_start,
                    date__text_block_end, dates, start_date, end_date,
                    section, cleaned_lines, i, rows, num_str >>

Next ==
    \/ ParseNumberCall
    \/ Acquire
    \/ LocateSection
    \/ LocateDates
    \/ ExtractDates
    \/ ParseDates
    \/ Normalize
    \/ ParseRow
    \/ Finish

Spec == Init /\ [][Next]_vars

-----------------------------------------------------------------------------
(* Vocabulary of the properties *)

PdfCall == call = "parse_single_page_pdf"
Terminal == pc \in {"done", "raised"}

RowFields ==
    { "START_DATE", "END_DATE", "YEAR", "BEGINNING_TAX_BALANCE",
      "TAX_ADJUSTMENT", "BASE_TAX_COLLECTED", "REVERSALS",
      "NET_BASE_TAX_COLLECTED", "PERCENT_COLLECTED", "ENDING_TAX_BALANCE",
      "PROPERTY_AND_INSURANCE_COLLECTED", "PROPERTY_AND_INSURANCE_REVERSALS",
      "LOCAL_REAL_PROPERTY_COLLECTED", "OTHER_PENALTY_COLLECTED",
      "TOTAL_DISTRIBUTED" }

\* the number field filled from token pos (1..12) of a line
FieldAt(r, pos) ==
    CASE pos = 1 -> r.BEGINNING_TAX_BALANCE
      [] pos = 2 -> r.TAX_ADJUSTMENT
      [] pos = 3 -> r.BASE_TAX_COLLECTED
      [] pos = 4 -> r.REVERSALS
      [] pos = 5 -> r.NET_BASE_TAX_COLLECTED
      [] pos = 6 -> r.PERCENT_COLLECTED
      [] pos = 7 -> r.ENDING_TAX_BALANCE
      [] pos = 8 -> r.PROPERTY_AND_INSURANCE_COLLECTED
      [] pos = 9 -> r.PROPERTY_AND_INSURANCE_REVERSALS
      [] pos = 10 -> r.LOCAL_REAL_PROPERTY_COLLECTED
      [] pos = 11 -> r.OTHER_PENALTY_COLLECTED
      [] pos = 12 -> r.TOTAL_DISTRIBUTED

\* the row loop was entered: the call is past the date stages
AtRows ==
    PdfCall /\ (pc \in {"rows", "done"}
                  \/ (pc = "raised" /\ err.site \in {93, 113, 120}))

\* the raw data section of a page whose markers are in order
RawSection(t) == Slice(t, Find(t, CD), Find(t, ENTITY))

\* the date block of a page
DateBlock(t) == Slice(t, Find(t, FROM), Find(t, YEAR_FROM))

\* the qualifying lines of a cleaned section: its lines, trimmed, that are
\* not blank and contain neither marker, with whitespace runs collapsed
QualifyingLines(sec) ==
    LET ls == Split(sec, "\n")
        q  == SelectSeq([k \in 1..Len(ls) |-> Strip(ls[k])],
                        LAMBDA l : /\ l # << >>
                                   /\ ~Contains(l, CD)
                                   /\ ~Contains(l, TOTL))
    IN [k \in 1..Len(q) |-> CollapseSpaces(q[k])]

PageLines(t) ==
    QualifyingLines(RemoveChar(RemoveDashes(RawSection(t)), "%"))

ShortLine(line) == Len(Split(line, " ")) < 13

\* a decimal numeral once its dashes are taken out
Numeric(tok) == ParseFloat(RemoveChar(tok, "-")).ok

NonNumericLine(line) ==
    /\ ~ShortLine(line)
    /\ \E p \in 1..13 : ~Numeric(Split(line, " ")[p])

WellFormed(line) == ~ShortLine(line) /\ FirstBad(Split(line, " ")) = 13

MarkersInOrder(t) ==
    /\ Find(t, CD) # -1 /\ Find(t, ENTITY) # -1
    /\ Find(t, CD) < Find(t, ENTITY)

ValidDateBlock(t) ==
    /\ Find(t, FROM) # -1 /\ Find(t, YEAR_FROM) # -1
    /\ Len(DateTokens(DateBlock(t))) >= 2
    /\ Strptime(DateTokens(DateBlock(t))[1]).ok

FirstDate(t) == Strptime(DateTokens(DateBlock(t))[1])

-----------------------------------------------------------------------------
(* C1 *)

\* C1: parse_single_page_pdf either raises and returns nothing, or returns a
\* non-empty list, one record of all 15 fields per cleaned line; a line that
\* fails discards the rows built before it, and no cleaned line at all gives
\* the empty-result error.
C1_AllOrNothing ==
    PdfCall =>
      /\ pc = "raised" => returned = << >> /\ err.kind # "none"
      /\ pc = "done" =>
           /\ err = NoError
           /\ Len(returned) = 1
           /\ returned[1] # << >>
           /\ Len(returned[1]) = Len(PageLines(file.text))
           /\ \A k \in 1..Len(returned[1]) :
                LET r == returned[1][k]
                IN /\ DOMAIN r = RowFields
                   /\ r.START_DATE.ok /\ r.END_DATE.ok
                   /\ r.YEAR \in Int
                   /\ \A p \in 1..12 : FieldAt(r, p).ok
      /\ (Terminal /\ AtRows /\ PageLines(file.text) = << >>) =>
           pc = "raised" /\ err.kind = "EmptyResultError"
      /\ pc # "done" => returned = << >>

\* a later line fails after an earlier one was built: nothing is returned
C1_Witness ==
    /\ PdfCall /\ pc = "raised" /\ err.kind = "FieldParseError"
    /\ Len(rows) = 1 /\ returned = << >>

-----------------------------------------------------------------------------
(* C2 *)

C2_Result ==
    /\ pc = "done"
    /\ Len(returned[1]) = Len(PageLines(file.text))
    /\ Len(returned[1]) >= 1
    /\ \A k \in 1..Len(returned[1]) :
         returned[1][k] =
           MakeRow(Split(PageLines(file.text)[k], " "),
                   FirstDate(file.text), FirstDate(file.text))

\* C2 as claimed: one well-formed line and a valid date block are enough for
\* a result of one record per qualifying line, in order.
C2_Original ==
    (/\ PdfCall /\ Terminal /\ file.outcome = "ok"
     /\ MarkersInOrder(file.text) /\ ValidDateBlock(file.text)
     /\ \E k \in 1..Len(PageLines(file.text)) :
          WellFormed(PageLines(file.text)[k]))
      => C2_Result

\* C2, amended: when every qualifying line of the cleaned data section is
\* well-formed, there is at least one, and the date block is valid, the
\* result has one record per qualifying line, the k-th parsed from the k-th
\* line.
C2_OnePerLine ==
    (/\ PdfCall /\ Terminal /\ file.outcome = "ok"
     /\ MarkersInOrder(file.text) /\ ValidDateBlock(file.text)
     /\ PageLines(file.text) # << >>
     /\ \A k \in 1..Len(PageLines(file.text)) :
          WellFormed(PageLines(file.text)[k]))
      => C2_Result

\* two records from two different lines, with skipped lines on the page
C2_Witness ==
    /\ PdfCall /\ pc = "done" /\ Len(returned[1]) = 2
    /\ returned[1][1].YEAR = 2023 /\ returned[1][2].YEAR = 2024

-----------------------------------------------------------------------------
(* C3 *)

\* C3: a page without both data markers in order, or without FROM or YEAR
\* FROM, ends in the structure error; no slice is taken with a -1 offset; and
\* past the structure check the data section is text[start:end] with
\* 0 <= start < end <= len(text).
C3_StructureGuard ==
    (PdfCall /\ pc # "acquire" /\ err.site # 38) =>
      /\ (\/ ~MarkersInOrder(text)
          \/ Find(text, FROM) = -1 \/ Find(text, YEAR_FROM) = -1) =>
           \/ pc \in {"locate_section", "locate_dates"}
           \/ pc = "raised" /\ err.kind = "StructureError"
      /\ (pc \notin {"locate_section", "raised"}
            \/ (pc = "raised" /\ err.site # 45)) =>
           /\ start = Find(text, CD) /\ end = Find(text, ENTITY)
           /\ 0 <= start /\ start < end /\ end <= Len(text)
      /\ (pc \in {"parse_dates", "normalize", "rows", "done"}
            \/ (pc = "raised" /\ err.site \notin {45, 54})) =>
           /\ date__text_block_start >= 0 /\ date__text_block_end >= 0
           /\ date__text_block_end <= Len(text)
      /\ AtRows => section = CleanSection(SubSeq(text, start + 1, end))
      /\ err.kind \in { "none", "StructureError", "FormatError",
                        "FieldCountError", "FieldParseError",
                        "EmptyResultError" }

\* ENTITY found before COLLECTED DISTRIBUTED: rejected, nothing sliced
C3_Witness ==
    /\ PdfCall /\ pc = "raised" /\ err.site = 45
    /\ end >= 0 /\ start > end /\ section = << >>

-----------------------------------------------------------------------------
(* C4 *)

NumberCall == call = "parse_number" /\ Terminal

C4_Rule ==
    NumberCall =>
      LET dashed == Contains(num_str, << "-" >>)
          mag    == ParseFloat(RemoveChar(num_str, "-"))
      IN /\ (dashed /\ mag.ok) =>
              /\ pc = "done"
              /\ returned = << [mag EXCEPT !.neg = TRUE] >>
         /\ (dashed /\ ~mag.ok) =>
              /\ pc = "raised" /\ err.kind = "NumberFormatError"
              /\ err.token = num_str /\ returned = << >>
         /\ (~dashed /\ pc = "done") => returned = << ParseFloat(num_str) >>
         /\ (~dashed /\ ParseFloat(num_str).ok) => pc = "done"
         /\ (dashed /\ pc = "done") =>
              returned[1].neg \/ returned[1].mant = 0

C4_PlainExample ==
    (NumberCall /\ num_str = T_123_45) =>
      returned = << [ok |-> TRUE, neg |-> FALSE, mant |-> 12345, exp |-> 2] >>

\* C4 as claimed: the rule, with '12-345-67' giving -12345.67.
C4_Original ==
    /\ C4_Rule
    /\ C4_PlainExample
    /\ (NumberCall /\ num_str = T_12d345d67) =>
         returned = << [ok |-> TRUE, neg |-> TRUE, mant |-> 1234567,
                        exp |-> 2] >>

\* C4, amended: a token with dashes gives the negation of the number left
\* when the dashes are deleted, so '12-345-67' gives -1234567; if that text
\* is no number the number-format error names the token; a token without a
\* dash gives its own value ('123.45' gives 123.45); a dash-bearing token
\* never gives a positive result.
C4_DashNegates ==
    /\ C4_Rule
    /\ C4_PlainExample
    /\ (NumberCall /\ num_str = T_12d345d67) =>
         returned = << [ok |-> TRUE, neg |-> TRUE, mant |-> 1234567,
                        exp |-> 0] >>

C4_Witness ==
    /\ call = "parse_number" /\ pc = "done" /\ num_str = T_12d345d67
    /\ returned[1].neg /\ returned[1].mant = 1234567 /\ returned[1].exp = 0

-----------------------------------------------------------------------------
(* C5 *)

\* C5: a cleaned line of fewer than 13 tokens ends the call in the
\* field-count error, a line of 13 or more with a non-numeric token among
\* the first 13 in the field-parse error; the error cites the line's 1-based
\* position among the cleaned lines and its content; nothing is returned;
\* and no such line is ever passed over.
C5_RowErrors ==
    AtRows =>
      /\ \A k \in 1..Len(cleaned_lines) :
           (ShortLine(cleaned_lines[k]) \/ NonNumericLine(cleaned_lines[k]))
             => /\ Len(rows) < k
                /\ pc # "done"
                /\ (pc = "raised" /\ Len(rows) = k - 1) =>
                     /\ err.kind = IF ShortLine(cleaned_lines[k])
                                   THEN "FieldCountError"
                                   ELSE "FieldParseError"
                     /\ err.line = k
                     /\ err.content = cleaned_lines[k]
                     /\ returned = << >>
      /\ (pc = "raised" /\ err.site \in {93, 113}) =>
           /\ err.line = Len(rows) + 1
           /\ err.line \in 1..Len(cleaned_lines)
           /\ err.content = cleaned_lines[err.line]
           /\ err.content = PageLines(file.text)[err.line]

\* token 3 of the second cleaned line is garbage
C5_Witness ==
    /\ PdfCall /\ pc = "raised" /\ err.kind = "FieldParseError"
    /\ err.line = 2 /\ err.token = T_x
    /\ Split(err.content, " ")[4] = T_x

-----------------------------------------------------------------------------
(* C6 *)

\* C6: the year of every returned record is a non-negative integer.
C6_YearNonNegative ==
    (PdfCall /\ pc = "done") =>
      \A k \in 1..Len(returned[1]) : returned[1][k].YEAR >= 0

-----------------------------------------------------------------------------
(* C7 *)

\* C7: every returned record has start date = end date = the date parsed
\* from the first token of the date block; the second token has to exist
\* and nothing more.
C7_DatesFromFirstToken ==
    (PdfCall /\ pc = "done") =>
      /\ Len(DateTokens(DateBlock(file.text))) >= 2
      /\ FirstDate(file.text).ok
      /\ \A k \in 1..Len(returned[1]) :
           /\ returned[1][k].START_DATE = FirstDate(file.text)
           /\ returned[1][k].END_DATE = FirstDate(file.text)

\* a result from a page whose second date token is no date
C7_Witness ==
    /\ PdfCall /\ pc = "done"
    /\ ~Strptime(dates[2]).ok
    /\ returned[1][1].END_DATE = [ok |-> TRUE, y |-> 2025, m |-> 1, d |-> 24]

-----------------------------------------------------------------------------
(* C8 *)

RECURSIVE Flatten(_)
Flatten(ss) == IF ss = << >> THEN << >> ELSE Head(ss) \o Flatten(Tail(ss))

DatesExtracted ==
    PdfCall /\ (pc \in {"parse_dates", "normalize", "rows", "done"}
                  \/ (pc = "raised" /\ err.site \notin {38, 45, 54}))

\* C8: the date tokens are the non-empty space-separated pieces of the date
\* block once every character other than a digit, '/' or space is deleted;
\* fewer than two tokens is the format error; the example block gives
\* '01/24/2025' and '01/26/2025'.
C8_DateTokens ==
    DatesExtracted =>
      LET block == DateBlock(text)
          kept  == SelectSeq(block, LAMBDA c : c \in Digits \cup {"/", " "})
          firsts == { k \in 1..Len(kept) :
                        kept[k] # " " /\ (k = 1 \/ kept[k - 1] = " ") }
      IN /\ \A k \in 1..Len(dates) :
              /\ dates[k] # << >>
              /\ \A j \in 1..Len(dates[k]) : dates[k][j] \in Digits \cup {"/"}
         /\ Flatten(dates) = SelectSeq(kept, LAMBDA c : c # " ")
         /\ Len(dates) = Cardinality(firsts)
         /\ Len(dates) < 2 <=> (pc = "raised" /\ err.site = 66)
         /\ (pc = "raised" /\ err.site = 66) => err.kind = "FormatError"
         /\ (Find(text, FROM) = Find(text, DB_example)) =>
              dates = << <<"0","1","/","2","4","/","2","0","2","5">>,
                         <<"0","1","/","2","6","/","2","0","2","5">> >>

\* a newline inside a date is deleted and does not split the token
C8_Witness ==
    /\ DatesExtracted /\ Contains(text, << "/", "\n", "2" >>)
    /\ dates = << <<"0","1","/","2","4","/","2","0","2","5">>,
                  <<"0","1","/","2","6","/","2","0","2","5">> >>

-----------------------------------------------------------------------------
(* C9 *)

LoneDash(s, k) ==
    /\ s[k] = "-"
    /\ ~(k > 1 /\ s[k - 1] = "-")
    /\ ~(k < Len(s) /\ s[k + 1] = "-")

\* a token marked by one dash, leading or trailing, around a decimal numeral
SingleDashToken(tok) ==
    /\ Len(tok) >= 2
    /\ Cardinality({ k \in 1..Len(tok) : tok[k] = "-" }) = 1
    /\ tok[1] = "-" \/ tok[Len(tok)] = "-"
    /\ Numeric(tok)

\* C9: step a deletes exactly the dashes that touch another dash; no two
\* dashes are adjacent after it, every lone dash and every other character
\* stays in place; a number token marked by a single dash reaches the row
\* parser with the dash and is recorded negative.
C9_LoneDashKept ==
    AtRows =>
      LET raw == SubSeq(text, start + 1, end)
          a   == RemoveDashes(raw)
          lone == Positions(Len(raw), { k \in 1..Len(raw) :
                                     raw[k] # "-" \/ LoneDash(raw, k) })
      IN /\ section = RemoveChar(a, "%")
         /\ \A k \in 1..(Len(a) - 1) : ~(a[k] = "-" /\ a[k + 1] = "-")
         /\ a = [j \in 1..Len(lone) |-> raw[lone[j]]]
         /\ SelectSeq(a, LAMBDA c : c # "-")
              = SelectSeq(raw, LAMBDA c : c # "-")
         /\ \A k \in 1..Len(rows) : \A p \in 1..12 :
              LET tok == Split(cleaned_lines[k], " ")[p + 1]
              IN SingleDashToken(tok) =>
                   /\ FieldAt(rows[k], p).neg
                   /\ FieldAt(rows[k], p)
                        = Negate(ParseFloat(RemoveChar(tok, "-")))

\* '-500.00' and '500.00-' recorded as -500, beside a removed run of dashes
C9_Witness ==
    /\ PdfCall /\ pc = "done"
    /\ \E k \in 1..Len(returned[1]) :
         /\ returned[1][k].BASE_TAX_COLLECTED
              = [ok |-> TRUE, neg |-> TRUE, mant |-> 500, exp |-> 0]
         /\ returned[1][k].REVERSALS
              = [ok |-> TRUE, neg |-> TRUE, mant |-> 500, exp |-> 0]
    /\ Contains(text, << "-", "-" >>)

-----------------------------------------------------------------------------
(* C10 *)

\* the source line of the raise a page must end in, 0 when it must succeed:
\* the first failing stage in the order acquisition, data markers, date
\* markers, date-token count, first date, rows (lowest line first), empty
ExpectedError(f) ==
    LET t  == f.text
        ls == PageLines(t)
        malformed == { k \in 1..Len(ls) : ~WellFormed(ls[k]) }
    IN IF f.outcome # "ok" \/ t = << >> THEN << 38, 0 >>
       ELSE IF ~MarkersInOrder(t) THEN << 45, 0 >>
       ELSE IF Find(t, FROM) = -1 \/ Find(t, YEAR_FROM) = -1 THEN << 54, 0 >>
       ELSE IF Len(DateTokens(DateBlock(t))) < 2 THEN << 66, 0 >>
       ELSE IF ~FirstDate(t).ok THEN << 69, 0 >>
       ELSE IF malformed # {}
            THEN << IF ShortLine(ls[Min(malformed)]) THEN 93 ELSE 113,
                    Min(malformed) >>
       ELSE IF ls = << >> THEN << 120, 0 >>
       ELSE << 0, 0 >>

\* C10: the error raised is that of the earliest failing stage and, among
\* the rows, of the lowest-numbered malformed line; a page with no failing
\* stage returns.
C10_EarliestStage ==
    (PdfCall /\ Terminal) =>
      /\ << err.site, err.line >> = ExpectedError(file)
      /\ pc = "done" <=> err.site = 0

\* a page without ENTITY whose date block is also missing its FROM marker
C10_Witness ==
    /\ PdfCall /\ pc = "raised" /\ err.site = 45
    /\ Find(text, ENTITY) = -1 /\ Find(text, FROM) = -1

=============================================================================
